---- MODULE Spec2Model ----
(***************************************************************************)
(* Model of decompile_jars.py: the Completion Oracle                       *)
(* (check_jar_already_decompiled), the Bounded Task Runner                 *)
(* (decompile_with_timeout: a supervising daemon thread, a child process   *)
(* and a caller that joins the thread with a deadline) and the Batch       *)
(* Orchestrator (decompile_jars: first pass, retry pass, final report).    *)
(*                                                                         *)
(* Time is abstract: the deadline of thread.join(TIMEOUT_SECONDS) may      *)
(* elapse at any point of the supervising thread's progress.               *)
(***************************************************************************)
EXTENDS Integers, Sequences, FiniteSets, TLC

\* ---------------------------------------------------------------- bounds
MaxItems == 2       \* at most this many *.jar files in lib_dir
MaxRuns  == 2       \* the program is run at most this many times
MaxRerunItems == 2  \* at most this many *.jar files when the program is rerun
MaxPending == 1     \* abandoned invocations followed after their call returned;
                    \* any further one ends before the main thread's next step

\* lib_dir of the three archives a, b, c
ScenarioJars == <<1, 2, 3>>

\* jar k is the k-th file that glob yields
Jars == 1..(IF MaxItems > Len(ScenarioJars) THEN MaxItems ELSE Len(ScenarioJars))

\* ------------------------------------------------------------ filesystem
\* A file below output_dir/<stem>: the directory it is in and its suffix.
JavaNested == [dir |-> "pkg", ext |-> "java"]
Manifest   == [dir |-> "META-INF", ext |-> "MF"]
Files      == {JavaNested, Manifest}

NoDir    == [exists |-> FALSE, files |-> {}]
EmptyDir == [exists |-> TRUE,  files |-> {}]
Dirs     == {NoDir} \cup {[exists |-> TRUE, files |-> fs] : fs \in SUBSET Files}
InitDirs == {NoDir, [exists |-> TRUE, files |-> Files]}

\* result['error'] before any assignment, and the texts a child writes to stderr
None        == "None"
StderrTexts == {"", "Exception in thread main"}

VARIABLES
    libExists,      \* Path(lib_dir).exists()
    libJars,        \* lib_path.glob("*.jar"), in the order glob yields
    toolExists,     \* Path(jd_cli_path).exists()
    outRoot,        \* output_dir exists
    out,            \* out[j]: the directory output_dir/<stem of jar j>
    run,            \* which run of the program this is
    pc,             \* position of the main thread
    pass,           \* 1: loop of lines 119-146, 2: loop of lines 153-170
    idx,            \* index of the current element of the loop
    jar_files,
    success_count,
    failed_count,
    timeout_jars,
    retry_count,
    skipped_count,
    calls,          \* calls[<<run, jar, pass>>]: the result record, supervising
                    \* thread and child process of that invocation
    invoked,        \* invoked[j]: calls of decompile_with_timeout for jar j
    consulted,      \* jars check_jar_already_decompiled was called for
    log,            \* log[j]: the status lines printed for jar j, in order
    reported,       \* the summary line of line 173 was printed
    out0            \* out when this run started

fsVars    == <<libExists, libJars, toolExists, outRoot, out>>
tallyVars == <<success_count, failed_count, timeout_jars, retry_count, skipped_count>>
histVars  == <<invoked, consulted, log, reported, out0>>
vars == <<libExists, libJars, toolExists, outRoot, out, run, pc, pass, idx,
          jar_files, success_count, failed_count, timeout_jars, retry_count,
          skipped_count, calls, invoked, consulted, log, reported, out0>>

\* ------------------------------------------------------ Completion Oracle
\* glob in place of rglob: the files with that suffix directly in the directory
globTop(d, ext) == {f \in d.files : f.ext = ext /\ f.dir = ""}

\* jar_output_dir.rglob("*.java"): the files with that suffix at any depth
rglob(d, ext) == {f \in d.files : f.ext = ext}

\* the directory's existence alone is taken for a finished decompilation
OracleDirExists(d) == d.exists

check_jar_already_decompiled(d) ==
    IF ~d.exists THEN FALSE ELSE Cardinality(rglob(d, "java")) > 0

\* --------------------------------------------------------------- tallies
Tally == [success_count |-> success_count, failed_count |-> failed_count,
          timeout_jars |-> timeout_jars, retry_count |-> retry_count,
          skipped_count |-> skipped_count]

NewTally == [success_count |-> 0, failed_count |-> 0, timeout_jars |-> <<>>,
             retry_count |-> 0, skipped_count |-> 0]

\* a skipped jar counted as a success
SkipCountsSuccess(t) == [t EXCEPT !.success_count = @ + 1]

\* lines 123-127
SkipTally(t) == [t EXCEPT !.skipped_count = @ + 1]

\* line 137 as "else": every jar that did not succeed is scheduled for retry
Pass1TallyRetriesFailures(t, j, r) ==
    IF r.timeout \/ ~r.success
    THEN [t EXCEPT !.timeout_jars = Append(@, j), !.failed_count = @ + 1]
    ELSE [t EXCEPT !.success_count = @ + 1]

\* line 136 missing: a timeout is scheduled for retry but not counted
Pass1TallyTimeoutUncounted(t, j, r) ==
    IF r.timeout
    THEN [t EXCEPT !.timeout_jars = Append(@, j)]
    ELSE IF r.success
    THEN [t EXCEPT !.success_count = @ + 1]
    ELSE [t EXCEPT !.failed_count = @ + 1]

\* line 135 missing: a timeout is counted but not scheduled for retry
Pass1TallyDropsTimeout(t, j, r) ==
    IF r.timeout
    THEN [t EXCEPT !.failed_count = @ + 1]
    ELSE IF r.success
    THEN [t EXCEPT !.success_count = @ + 1]
    ELSE [t EXCEPT !.failed_count = @ + 1]

\* lines 133/137 swapped: success is tested before timeout
Pass1TallySuccessFirst(t, j, r) ==
    IF r.success
    THEN [t EXCEPT !.success_count = @ + 1]
    ELSE IF r.timeout
    THEN [t EXCEPT !.timeout_jars = Append(@, j), !.failed_count = @ + 1]
    ELSE [t EXCEPT !.failed_count = @ + 1]

\* lines 133-144: r is the triple returned for jar j in the first pass
Pass1Tally(t, j, r) ==
    IF r.timeout
    THEN [t EXCEPT !.timeout_jars = Append(@, j), !.failed_count = @ + 1]
    ELSE IF r.success
    THEN [t EXCEPT !.success_count = @ + 1]
    ELSE [t EXCEPT !.failed_count = @ + 1]

\* line 163 missing: a retried success is not counted as retried
RetryTallyForgetsRetried(t, j, r) ==
    IF r.timeout
    THEN t
    ELSE IF r.success
    THEN [t EXCEPT !.success_count = @ + 1, !.failed_count = @ - 1]
    ELSE t

\* lines 165-168 as in the first loop: a failed retry is counted again
RetryTallyRecountsFailure(t, j, r) ==
    IF r.timeout
    THEN t
    ELSE IF r.success
    THEN [t EXCEPT !.success_count = @ + 1, !.retry_count = @ + 1,
                   !.failed_count = @ - 1]
    ELSE [t EXCEPT !.failed_count = @ + 1]

\* line 164 missing: a retried success stays counted as failed
RetryTallyKeepsFailed(t, j, r) ==
    IF r.timeout
    THEN t
    ELSE IF r.success
    THEN [t EXCEPT !.success_count = @ + 1, !.retry_count = @ + 1]
    ELSE t

\* lines 158-168: r is the triple returned for jar j in the retry pass
RetryTally(t, j, r) ==
    IF r.timeout
    THEN t
    ELSE IF r.success
    THEN [t EXCEPT !.success_count = @ + 1, !.retry_count = @ + 1,
                   !.failed_count = @ - 1]
    ELSE t

\* the status line printed for a returned triple (lines 134/138/141, 159/161/166)
StatusLine(r) == IF r.timeout THEN "timeout" ELSE IF r.success THEN "success" ELSE "failed"

SetTally(t) ==
    /\ success_count' = t.success_count
    /\ failed_count'  = t.failed_count
    /\ timeout_jars'  = t.timeout_jars
    /\ retry_count'   = t.retry_count
    /\ skipped_count' = t.skipped_count

\* ---------------------------------------------------- Bounded Task Runner
Keys == (1..MaxRuns) \X Jars \X {1, 2}

\* no invocation: the key was never used, or its record, thread and child are gone
NoCall == [thread |-> "none", proc |-> "none", handle |-> FALSE,
           success |-> FALSE, error |-> None, timeout |-> FALSE,
           returned |-> FALSE]

\* lines 38-43 and 67-69: the result record and a started thread that has not
\* yet reached line 52
NewCall == [thread |-> "popen", proc |-> "none", handle |-> FALSE,
            success |-> FALSE, error |-> None, timeout |-> FALSE,
            returned |-> FALSE]

ThreadAlive(c) == c.thread \in {"popen", "store", "communicate"}

\* The record of a returned call is referenced by its thread alone; once the
\* thread has ended and the child is dead nothing of the invocation is left.
Collect(c) ==
    IF c.returned /\ ~ThreadAlive(c) /\ c.proc # "running" THEN NoCall ELSE c

\* the abandoned invocations that are still followed
Pending == {k \in Keys : calls[k].returned}

\* the record of an invocation when its call returns
Abandon(c) ==
    IF Cardinality(Pending) >= MaxPending
    THEN NoCall
    ELSE Collect([c EXCEPT !.returned = TRUE])

\* ------------------------------------------------------------------ Init
NoneYet == [j \in Jars |-> <<>>]

\* the main thread at line 89 of the first run, nothing invoked yet
AtStart ==
    /\ run = 1
    /\ pc = "start"
    /\ pass = 1
    /\ idx = 1
    /\ jar_files = <<>>
    /\ success_count = 0
    /\ failed_count = 0
    /\ timeout_jars = <<>>
    /\ retry_count = 0
    /\ skipped_count = 0
    /\ calls = [k \in Keys |-> NoCall]
    /\ invoked = [j \in Jars |-> 0]
    /\ consulted = {}
    /\ log = NoneYet
    /\ reported = FALSE
    /\ out0 = out

\* Any of the two preconditions may fail; every output directory is missing
\* or holds the complete output of an earlier run.
Init ==
    /\ libExists \in BOOLEAN
    /\ toolExists \in BOOLEAN
    /\ outRoot \in BOOLEAN
    /\ \E n \in 0..MaxItems :
          /\ libJars = [k \in 1..n |-> k]
          /\ libExists \/ n = 0
          /\ out \in [Jars -> InitDirs]
          /\ \A j \in Jars : (j > n \/ ~outRoot) => out[j] = NoDir
    /\ AtStart

\* The three archives a, b, c, of which a was decompiled by an earlier run.
InitScenario ==
    /\ libExists = TRUE
    /\ toolExists = TRUE
    /\ outRoot = TRUE
    /\ libJars = ScenarioJars
    /\ out = [j \in Jars |-> IF j = 1 THEN [exists |-> TRUE, files |-> Files]
                                      ELSE NoDir]
    /\ AtStart

\* Both preconditions hold and nothing was decompiled yet.
InitFresh ==
    /\ libExists = TRUE
    /\ toolExists = TRUE
    /\ outRoot \in BOOLEAN
    /\ \E n \in 1..MaxItems : libJars = [k \in 1..n |-> k]
    /\ out = [j \in Jars |-> NoDir]
    /\ AtStart

\* A first run on an output directory that holds nothing yet.
InitRerun ==
    /\ libExists = TRUE
    /\ toolExists = TRUE
    /\ outRoot \in BOOLEAN
    /\ \E n \in 1..MaxRerunItems : libJars = [k \in 1..n |-> k]
    /\ out = [j \in Jars |-> NoDir]
    /\ AtStart

\* ------------------------------------------------------ Batch Orchestrator
\* the retry loop walks the pending list from its end
CurJarRetryReversed ==
    IF pass = 1 THEN jar_files[idx] ELSE timeout_jars[Len(timeout_jars) + 1 - idx]

CurJar == IF pass = 1 THEN jar_files[idx] ELSE timeout_jars[idx]
Cur    == <<run, CurJar, pass>>

\* line 100 moved before line 92: output_dir is made before the checks
StartMkdirFirst ==
    /\ pc = "start"
    /\ outRoot' = TRUE
    /\ IF ~libExists \/ ~toolExists
       THEN /\ pc' = "aborted"
            /\ UNCHANGED jar_files
       ELSE /\ jar_files' = libJars
            /\ pc' = IF libJars = <<>> THEN "nojars" ELSE "loop"
    /\ pass' = 1
    /\ idx' = 1
    /\ SetTally(NewTally)
    /\ UNCHANGED <<libExists, libJars, toolExists, out, run, calls, histVars>>

\* lines 89-117: the two preconditions, mkdir of output_dir, glob, the counters
Start ==
    /\ pc = "start"
    /\ IF ~libExists \/ ~toolExists
       THEN /\ pc' = "aborted"
            /\ UNCHANGED <<outRoot, jar_files>>
       ELSE /\ outRoot' = TRUE
            /\ jar_files' = libJars
            /\ pc' = IF libJars = <<>> THEN "nojars" ELSE "loop"
    /\ pass' = 1
    /\ idx' = 1
    /\ SetTally(NewTally)
    /\ UNCHANGED <<libExists, libJars, toolExists, out, run, calls, histVars>>

\* lines 29-69 as seen by the caller: a fresh result record and a started thread
Launch(j) ==
    /\ calls' = [calls EXCEPT ![<<run, j, pass>>] = NewCall]
    /\ invoked' = [invoked EXCEPT ![j] = @ + 1]
    /\ pc' = "join"

\* lines 119-131: one element of the first loop, up to the call of the Runner
Pass1Item ==
    /\ pc = "loop" /\ pass = 1 /\ idx <= Len(jar_files)
    /\ consulted' = consulted \cup {CurJar}
    /\ IF check_jar_already_decompiled(out[CurJar])
       THEN /\ SetTally(SkipTally(Tally))
            /\ log' = [log EXCEPT ![CurJar] = Append(@, "skip")]
            /\ idx' = idx + 1
            /\ UNCHANGED <<pc, calls, invoked>>
       ELSE /\ Launch(CurJar)
            /\ UNCHANGED <<tallyVars, log, idx>>
    /\ UNCHANGED <<fsVars, run, pass, jar_files, reported, out0>>

\* line 148: the first loop is over
Pass1Done ==
    /\ pc = "loop" /\ pass = 1 /\ idx > Len(jar_files)
    /\ IF timeout_jars # <<>>
       THEN pass' = 2 /\ idx' = 1 /\ pc' = "loop"
       ELSE pc' = "report" /\ UNCHANGED <<pass, idx>>
    /\ UNCHANGED <<fsVars, run, jar_files, tallyVars, calls, histVars>>

\* lines 153-156: one element of the retry loop, up to the call of the Runner
RetryItem ==
    /\ pc = "loop" /\ pass = 2 /\ idx <= Len(timeout_jars)
    /\ Launch(CurJar)
    /\ UNCHANGED <<fsVars, run, pass, idx, jar_files, tallyVars,
                   consulted, log, reported, out0>>

RetryDone ==
    /\ pc = "loop" /\ pass = 2 /\ idx > Len(timeout_jars)
    /\ pc' = "report"
    /\ UNCHANGED <<fsVars, run, pass, idx, jar_files, tallyVars, calls, histVars>>

\* lines 172-176
Report ==
    /\ pc = "report"
    /\ reported' = TRUE
    /\ pc' = "done"
    /\ UNCHANGED <<fsVars, run, pass, idx, jar_files, tallyVars, calls,
                   invoked, consulted, log, out0>>

\* ------------------------------------------- decompile_with_timeout, caller
\* thread.join() without a timeout
JoinNoDeadline(c) == ~ThreadAlive(c)

\* line 71: thread.join(TIMEOUT_SECONDS) returns when the thread has ended or
\* when the deadline has elapsed, whichever is first; the deadline may elapse
\* at any point of the thread's progress
JoinReturns(c) ==
    \/ ~ThreadAlive(c)      \* the thread has ended
    \/ ThreadAlive(c)       \* TIMEOUT_SECONDS have elapsed

Join ==
    /\ pc = "join"
    /\ JoinReturns(calls[Cur])
    /\ pc' = "alive"
    /\ UNCHANGED <<fsVars, run, pass, idx, jar_files, tallyVars, calls, histVars>>

\* lines 73-74
IsAlive ==
    /\ pc = "alive"
    /\ IF ThreadAlive(calls[Cur])
       THEN /\ calls' = [calls EXCEPT ![Cur].timeout = TRUE]
            /\ pc' = "process"
       ELSE /\ pc' = "return"
            /\ UNCHANGED calls
    /\ UNCHANGED <<fsVars, run, pass, idx, jar_files, tallyVars, histVars>>

\* line 75
CheckProcess ==
    /\ pc = "process"
    /\ pc' = IF calls[Cur].handle THEN "kill" ELSE "return"
    /\ UNCHANGED <<fsVars, run, pass, idx, jar_files, tallyVars, calls, histVars>>

\* Popen.kill(): SIGKILL to a child that has not been waited for, nothing otherwise
kill(p) == IF p = "running" THEN "killed" ELSE p

\* line 76
Kill ==
    /\ pc = "kill"
    /\ calls' = [calls EXCEPT ![Cur].proc = kill(@)]
    /\ pc' = "return"
    /\ UNCHANGED <<fsVars, run, pass, idx, jar_files, tallyVars, histVars>>

\* line 78
Returned(c) == [success |-> c.success, error |-> c.error, timeout |-> c.timeout]

\* an outcome that is neither a success nor a timeout ends the loop
AfterItemStopsOnFailure(r) == IF ~r.success /\ ~r.timeout THEN "report" ELSE "loop"

\* lines 146 and 170: whatever the outcome, the loop goes on with the next jar
AfterItem(r) == "loop"

\* line 78, then lines 133-146 (first pass) or 158-170 (retry pass)
Return ==
    /\ pc = "return"
    /\ LET r == Returned(calls[Cur])
           j == CurJar
       IN /\ log' = [log EXCEPT ![j] = Append(@, StatusLine(r))]
          /\ SetTally(IF pass = 1 THEN Pass1Tally(Tally, j, r)
                                  ELSE RetryTally(Tally, j, r))
          /\ calls' = [calls EXCEPT ![Cur] = Abandon(@)]
          /\ pc' = AfterItem(r)
    /\ idx' = idx + 1
    /\ UNCHANGED <<fsVars, run, pass, jar_files, invoked, consulted, reported, out0>>

\* one result record shared by all calls: a thread writes to the record of
\* the call that is running now
ResultShared(k) ==
    IF pc \in {"join", "alive", "process", "kill", "return"} THEN Cur ELSE k

\* lines 38-43: result is a local of the call, and run_decompile (lines 45-65)
\* is a closure over it: the thread of call k writes to the record of call k
ResultOf(k) == k

\* ---------------------------------- run_decompile, the supervising thread
\* line 52, the call: the child is created, or Popen raises and the thread ends
Popen(k) ==
    /\ calls[k].thread = "popen"
    /\ \E ok \in BOOLEAN :
          calls' = [calls EXCEPT ![k] = Collect(
                       IF ok THEN [@ EXCEPT !.thread = "store", !.proc = "running"]
                             ELSE [@ EXCEPT !.thread = "raised"])]
    /\ UNCHANGED <<fsVars, run, pc, pass, idx, jar_files, tallyVars, histVars>>

\* line 52, the assignment to result['process']
StoreProcess(k) ==
    /\ calls[k].thread = "store"
    /\ calls' = [[calls EXCEPT ![k].thread = "communicate"]
                       EXCEPT ![ResultOf(k)].handle = TRUE]
    /\ UNCHANGED <<fsVars, run, pc, pass, idx, jar_files, tallyVars, histVars>>

\* a nonzero exit status is taken for a success and nothing is kept of stderr
OutcomeStatusIgnored(c, status, stderr) == [c EXCEPT !.success = TRUE]

\* lines 62-65: returncode 0 sets success, any other status stores stderr;
\* c is the result record, status what became of the child
Outcome(c, status, stderr) ==
    IF status = "exit0" THEN [c EXCEPT !.success = TRUE]
                        ELSE [c EXCEPT !.error = stderr]

\* lines 60-65: communicate() returns once the child is dead; stderr is what
\* the child had written
Communicate(k) ==
    /\ calls[k].thread = "communicate"
    /\ calls[k].proc \in {"exit0", "exit1", "killed"}
    /\ \E stderr \in StderrTexts :
          LET written == [calls EXCEPT ![ResultOf(k)] =
                                         Outcome(@, calls[k].proc, stderr)]
          IN calls' = [written EXCEPT ![k] = Collect([@ EXCEPT !.thread = "done"])]
    /\ UNCHANGED <<fsVars, run, pc, pass, idx, jar_files, tallyVars, histVars>>

\* ------------------------------------------------ the external tool (child)
\* the child creates output_dir/<stem> or writes one more file below it
ChildWrite(k) ==
    /\ calls[k].proc = "running"
    /\ \E d \in Dirs :
          /\ d.exists
          /\ IF out[k[2]].exists
             THEN \E f \in Files \ out[k[2]].files : d.files = out[k[2]].files \cup {f}
             ELSE d = EmptyDir
          /\ out' = [out EXCEPT ![k[2]] = d]
    /\ outRoot' = TRUE
    /\ UNCHANGED <<libExists, libJars, toolExists, run, pc, pass, idx, jar_files,
                   tallyVars, calls, histVars>>

\* the child ends by itself with exit status 0 or 1
ChildExit(k) ==
    /\ calls[k].proc = "running"
    /\ \E code \in {0, 1} :
          calls' = [calls EXCEPT ![k] = Collect(
                       [@ EXCEPT !.proc = IF code = 0 THEN "exit0" ELSE "exit1"])]
    /\ UNCHANGED <<fsVars, run, pc, pass, idx, jar_files, tallyVars, histVars>>

\* ------------------------------------------------------------ the next run
\* The interpreter has exited: its daemon threads and their result records are
\* gone, children that were not killed live on.
Orphan(c) == IF c.proc = "running"
             THEN [NoCall EXCEPT !.thread = "gone", !.proc = "running", !.returned = TRUE]
             ELSE NoCall

\* lines 179-195: the program is started again on the same directories
Restart ==
    /\ pc \in {"done", "aborted", "nojars"}
    /\ run < MaxRuns
    /\ run' = run + 1
    /\ pc' = "start"
    /\ calls' = [k \in Keys |-> Orphan(calls[k])]
    /\ invoked' = [j \in Jars |-> 0]
    /\ consulted' = {}
    /\ log' = NoneYet
    /\ reported' = FALSE
    /\ out0' = out
    /\ UNCHANGED <<fsVars, pass, idx, jar_files, tallyVars>>

Main == \/ Start \/ Pass1Item \/ Pass1Done \/ RetryItem \/ RetryDone \/ Report
        \/ Join \/ IsAlive \/ CheckProcess \/ Kill \/ Return

Thread == \E k \in Keys : Popen(k) \/ StoreProcess(k) \/ Communicate(k)

\* One run of the program.  Within a run the Oracle is consulted for a jar
\* before the first invocation for it and never again, so what the children
\* write is read by a later run only: ChildWrite and Restart are steps of
\* SpecRerun.
Next ==
    \/ Main
    \/ Thread
    \/ \E k \in Keys : ChildExit(k)

Spec == Init /\ [][Next]_vars

\* Successive runs of the program on the same directories, with the output
\* the children write.
NextRerun ==
    \/ Next
    \/ \E k \in Keys : ChildWrite(k)
    \/ Restart

\* The main thread keeps running: it is never descheduled for ever.  Nothing
\* is assumed of the supervising threads and of the children.
FairSpec == InitFresh /\ [][Next]_vars /\ WF_vars(Main)

\* One run on the three archives a, b, c.
SpecScenario == InitScenario /\ [][Next]_vars

SpecRerun == InitRerun /\ [][NextRerun]_vars

\* ================================================================ claims
Discovered == {jar_files[i] : i \in 1..Len(jar_files)}
Total      == Len(jar_files)

\* the directory exists and holds, at some depth, a file named *.java
HasJava(d) == d.exists /\ \E f \in d.files : f.ext = "java"

\* the first loop is over (line 148 reached), in this run
Pass1Over ==
    \/ pc = "loop" /\ pass = 1 /\ idx > Len(jar_files)
    \/ pc \in {"loop", "join", "alive", "process", "kill", "return"} /\ pass = 2
    \/ pc \in {"report", "done"}

\* the retry loop (if any) is over
RetryOver == pc \in {"report", "done"}

FirstLine(j)  == IF log[j] = <<>> THEN "none" ELSE log[j][1]
TimedOut1(j)  == FirstLine(j) = "timeout"

\* C1: once the first pass is over - at its end, throughout the retry pass and
\* at the final report - succeeded + failed + skipped is the number of
\* discovered items.
C1_SumIsTotal ==
    Pass1Over => success_count + failed_count + skipped_count = Total

C1_Witness ==
    /\ pc = "done"
    /\ retry_count > 0 /\ failed_count > 0 /\ Total = 2

\* C2 as stated: with a skipped, b succeeded in pass 1 and c timed out and
\* then succeeded on retry, the final tally is succeeded 1, failed 0,
\* retried 1, skipped 1 of 3.
ScenarioC2 ==
    /\ pc = "done"
    /\ jar_files = ScenarioJars
    /\ HasJava(out0[1])
    /\ log[2] = <<"success">>
    /\ log[3] = <<"timeout", "success">>

C2_AsStated ==
    ScenarioC2 => /\ success_count = 1 /\ failed_count = 0
                  /\ retry_count = 1 /\ skipped_count = 1 /\ Total = 3

\* C2 amended: in that scenario the final tally is succeeded 2 (b in the first
\* pass and c on retry), failed 0, retried 1, skipped 1 of 3.
C2_Scenario ==
    ScenarioC2 => /\ success_count = 2 /\ failed_count = 0
                  /\ retry_count = 1 /\ skipped_count = 1 /\ Total = 3

C2_Witness == ScenarioC2 /\ log[1] = <<"skip">>

\* C3: a triple returned by decompile_with_timeout never has timeout set
\* together with success or with a non-empty error.
C3_OneOutcome ==
    pc = "return" =>
        LET r == Returned(calls[Cur])
        IN ~(r.timeout /\ (r.success \/ r.error \notin {None, ""}))

\* C4: once a call has returned with timeout set, the child of that call is
\* not running.
C4_TimedOutChildKilled ==
    \A k \in Keys :
        (calls[k].returned /\ calls[k].timeout) => calls[k].proc # "running"

\* C5: every batch with at least one item reaches the final report - so every
\* call of the Runner it makes, in the first pass and in the retry pass, has
\* returned - whatever the supervising threads and the children do: only
\* the main thread is assumed to keep running.
C5_BatchEnds == <>(pc = "done" /\ reported)

\* a batch has ended while an abandoned supervising thread is still waiting
\* for a child that nobody killed
C5_Witness ==
    /\ pc = "done"
    /\ \E k \in Keys : /\ calls[k].returned /\ ThreadAlive(calls[k])
                       /\ calls[k].proc = "running"

\* C6: the Runner is never invoked a third time for an item, and at the end
\* of a batch it has been invoked 0 times for a skipped item, once for an item
\* whose first outcome was Succeeded or Failed and twice for one whose first
\* outcome was TimedOut.
C6_RetryOnce ==
    /\ \A j \in Jars : invoked[j] <= 2
    /\ pc = "done" =>
          \A j \in Discovered :
              invoked[j] = IF FirstLine(j) = "skip" THEN 0
                           ELSE IF TimedOut1(j) THEN 2 ELSE 1

C6_Witness ==
    /\ pc = "done"
    /\ \E j, k \in Discovered :
          /\ invoked[j] = 1 /\ log[j] = <<"failed">>
          /\ invoked[k] = 2 /\ log[k] = <<"timeout", "timeout">>

\* C7: at the end of a batch every discovered item is in exactly one of the
\* classes skipped, succeeded in the first pass, succeeded on retry, failed,
\* and each counter counts the items of its class.
Classes(j) ==
    {c \in {"skipped", "succeeded", "retried", "failed"} :
        \/ c = "skipped"   /\ log[j] = <<"skip">>
        \/ c = "succeeded" /\ log[j] = <<"success">>
        \/ c = "retried"   /\ log[j] = <<"timeout", "success">>
        \/ c = "failed"    /\ log[j] \in {<<"failed">>, <<"timeout", "failed">>,
                                         <<"timeout", "timeout">>}}

InClass(c) == {j \in Discovered : c \in Classes(j)}

C7_OneClass ==
    pc = "done" =>
        /\ \A j \in Discovered : Cardinality(Classes(j)) = 1
        /\ skipped_count = Cardinality(InClass("skipped"))
        /\ success_count = Cardinality(InClass("succeeded") \cup InClass("retried"))
        /\ retry_count   = Cardinality(InClass("retried"))
        /\ failed_count  = Cardinality(InClass("failed"))

C7_Witness ==
    /\ pc = "done"
    /\ InClass("retried") # {} /\ InClass("failed") # {}

\* the discovered items whose first outcome was TimedOut, in discovery order
TimedOutFirst == SelectSeq(jar_files, TimedOut1)

\* C8 as stated: timeout_jars holds exactly the items whose first outcome was
\* TimedOut when the first pass is over, and is empty once the retry pass is
\* over.
C8_AsStated ==
    /\ Pass1Over /\ ~RetryOver => timeout_jars = TimedOutFirst
    /\ RetryOver => timeout_jars = <<>>

\* C8 amended: timeout_jars holds exactly the items whose first outcome was
\* TimedOut when the first pass is over, and keeps them through the retry
\* pass up to the final report.
C8_PendingKept ==
    Pass1Over => timeout_jars = TimedOutFirst

C8_Witness ==
    /\ pc = "done"
    /\ timeout_jars = <<2>>
    /\ Total = 2

\* C9 as stated: a second run on the same directories ends with every item
\* skipped and nothing succeeded or failed, whatever the first run's outcomes.
C9_AsStated ==
    (run = 2 /\ pc = "done") =>
        /\ skipped_count = Total
        /\ success_count = 0 /\ failed_count = 0

\* the items whose output directory held a *.java file when this run started
DoneBefore == {j \in Discovered : HasJava(out0[j])}

\* C9 amended: a later run on the same directories skips, without invoking
\* the Runner, every item whose output directory held a *.java file when that
\* run started; when that is every item, it ends with skipped = total and
\* succeeded = failed = 0.
C9_SecondRunSkipsDone ==
    (run >= 2 /\ pc = "done") =>
        /\ \A j \in DoneBefore : log[j] = <<"skip">> /\ invoked[j] = 0
        /\ DoneBefore = Discovered =>
              /\ skipped_count = Total
              /\ success_count = 0 /\ failed_count = 0

C9_Witness ==
    /\ run = 2 /\ pc = "done"
    /\ Total = 2
    /\ DoneBefore = Discovered
    /\ skipped_count = 2

\* C10: while the input directory or the tool is missing, the Runner is not
\* invoked, the Oracle is not consulted, no tally is reported and the output
\* directory is not created.
C10_AbortsFirst ==
    /\ [](~(libExists /\ toolExists) =>
            /\ \A j \in Jars : invoked[j] = 0
            /\ \A k \in Keys : calls[k] = NoCall
            /\ consulted = {}
            /\ ~reported
            /\ pc \in {"start", "aborted"})
    /\ [][~(libExists /\ toolExists) => outRoot' = outRoot]_vars

C10_Witness ==
    /\ pc = "aborted"
    /\ libExists /\ ~toolExists /\ ~outRoot

\* C11: once the preconditions have passed and a jar was found the batch is
\* never aborted, and when the first loop is over every discovered item was
\* either skipped or given a call of the Runner - also after items that
\* failed, timed out or could not be launched.
C11_NoItemAborts ==
    /\ jar_files # <<>> => pc \notin {"aborted", "nojars"}
    /\ Pass1Over =>
          \A j \in Discovered : FirstLine(j) = "skip" \/ invoked[j] >= 1

\* the first jar failed (a nonzero exit status or a launch error in the
\* thread) and the second jar was invoked all the same
C11_Witness ==
    /\ pc = "done" /\ Total = 2
    /\ log[jar_files[1]] = <<"failed">>
    /\ invoked[jar_files[2]] >= 1

\* C12: the step of the first loop that handles an item skips it (one more
\* skipped, no call of the Runner) exactly if its output directory exists and
\* holds a *.java file at some depth; with a missing, an empty or a
\* java-less directory the item gets a call of the Runner; and an item that
\* was skipped never gets a call in that run.
C12_SkipIffJava ==
    /\ [](\A j \in Discovered : FirstLine(j) = "skip" => invoked[j] = 0)
    /\ [][(pc = "loop" /\ pass = 1 /\ idx <= Len(jar_files)
              /\ (pc' # pc \/ idx' # idx))
          => LET j == jar_files[idx]
             IN IF HasJava(out[j])
                THEN /\ log'[j] = <<"skip">> /\ invoked'[j] = 0
                     /\ skipped_count' = skipped_count + 1
                     /\ pc' = "loop" /\ idx' = idx + 1
                ELSE /\ invoked'[j] = 1 /\ log'[j] = <<>>
                     /\ skipped_count' = skipped_count
                     /\ pc' = "join" /\ idx' = idx]_vars

\* a second run has skipped one item for its *.java file and invoked the
\* Runner for another whose directory held nothing but a manifest
C12_Witness ==
    /\ run = 2
    /\ \E i, j \in Discovered :
          /\ HasJava(out0[i]) /\ log[i] = <<"skip">> /\ invoked[i] = 0
          /\ out0[j] = [exists |-> TRUE, files |-> {Manifest}]
          /\ invoked[j] = 1

\* C13: whenever the orchestrator starts a call of the Runner, in the first
\* loop or in the retry loop, no child launched by an earlier call is still
\* running - the children of calls that timed out included.
C13_OneAtATime ==
    [][(pc = "loop" /\ pc' = "join")
       => \A k \in Keys : calls[k].proc # "running"]_vars

\* the place of a discovered item in the discovery order
Place(j) == CHOOSE i \in 1..Len(jar_files) : jar_files[i] = j

\* the pending items for which the retry call has been started
Retried == {i \in 1..Len(timeout_jars) : invoked[timeout_jars[i]] = 2}

\* C14: no retry call starts before every discovered item has been skipped
\* or has had its first call return, and the retry loop visits the timed-out
\* items in the relative order of the first loop.
C14_RetryAfterPass1 ==
    /\ (pass = 2 \/ \E j \in Discovered : invoked[j] = 2)
          => \A j \in Discovered : log[j] # <<>>
    /\ \A a, b \in 1..Len(timeout_jars) :
          a < b => /\ Place(timeout_jars[a]) < Place(timeout_jars[b])
                   /\ b \in Retried => a \in Retried

\* both items timed out; the retry call of the first has returned and the
\* retry call of the second has just been started
C14_Witness ==
    /\ pass = 2 /\ pc = "join" /\ idx = 2
    /\ Len(timeout_jars) = 2
    /\ Retried = {1, 2}

\* C15: a call whose supervising thread ended within the deadline (timeout
\* is not set) returns by the child's exit status alone: status 0 gives
\* success without error, a nonzero status gives no success and the text the
\* child wrote to stderr as the error.
C15_ExitStatusDecides ==
    (pc = "return" /\ ~calls[Cur].timeout /\ calls[Cur].proc # "none") =>
        LET r == Returned(calls[Cur])
        IN /\ ~ThreadAlive(calls[Cur])
           /\ calls[Cur].proc \in {"exit0", "exit1"}
           /\ calls[Cur].proc = "exit0" =>
                 r.success /\ r.error = None /\ ~r.timeout
           /\ calls[Cur].proc = "exit1" =>
                 ~r.success /\ r.error \in StderrTexts /\ ~r.timeout

\* the child ended with a nonzero status and a message on stderr, in time
C15_Witness ==
    /\ pc = "return" /\ ~calls[Cur].timeout
    /\ calls[Cur].proc = "exit1"
    /\ calls[Cur].error = "Exception in thread main"

\* the step that prints the outcome of the retry call of item j
RetryEnds(j, line) ==
    /\ log[j] = <<"timeout">>
    /\ log'[j] = <<"timeout", line>>

\* C16: the step in which the retry of a timed-out item ends in a success
\* changes the tally by exactly succeeded + 1, retried + 1, failed - 1; it
\* leaves skipped and the pending list as they were, and the sum of
\* succeeded, failed and skipped too.
C16_RetrySuccessDelta ==
    [][\A j \in Jars :
          RetryEnds(j, "success") =>
              /\ success_count' = success_count + 1
              /\ retry_count'   = retry_count + 1
              /\ failed_count'  = failed_count - 1
              /\ skipped_count' = skipped_count
              /\ timeout_jars'  = timeout_jars
              /\ success_count' + failed_count' + skipped_count'
                    = success_count + failed_count + skipped_count]_vars

\* the retry of a timed-out item has just succeeded
C16_Witness ==
    /\ pc = "loop" /\ pass = 2 /\ idx = 2
    /\ log[timeout_jars[1]] = <<"timeout", "success">>
    /\ retry_count = 1 /\ success_count = 1 /\ failed_count = 0

\* the items that timed out in the first loop and whose retry did not succeed
RetryLost ==
    {j \in Discovered : log[j] \in {<<"timeout", "timeout">>, <<"timeout", "failed">>}}

\* C17: the step in which the retry of a timed-out item ends in a timeout or
\* a failure leaves every counter and the pending list unchanged, so in the
\* final tally each such item counts once in failed - the count made when it
\* timed out in the first loop - and not in succeeded or retried.
C17_RetryFailureKeepsTally ==
    /\ [][\A j \in Jars :
             (RetryEnds(j, "timeout") \/ RetryEnds(j, "failed"))
                 => UNCHANGED tallyVars]_vars
    /\ [](pc = "done" =>
             /\ failed_count = Cardinality(RetryLost)
                                 + Cardinality({j \in Discovered : log[j] = <<"failed">>})
             /\ success_count + skipped_count = Total - failed_count
             /\ retry_count = Cardinality(InClass("retried")))

\* one item timed out twice, the other timed out and then failed: both are
\* counted once, as failed
C17_Witness ==
    /\ pc = "done"
    /\ \E i, j \in Discovered : /\ log[i] = <<"timeout", "timeout">>
                                /\ log[j] = <<"timeout", "failed">>
    /\ failed_count = 2 /\ success_count = 0 /\ retry_count = 0

\* C18: in every state all counters are non-negative, retried is at most the
\* number of items that timed out in the first loop, which is at most
\* failed + retried, and retried is at most succeeded; so the decrement of
\* the retry loop never takes failed below zero.
C18_CountersBounded ==
    /\ success_count >= 0 /\ failed_count >= 0
    /\ retry_count >= 0 /\ skipped_count >= 0
    /\ retry_count <= Len(timeout_jars)
    /\ Len(timeout_jars) <= failed_count + retry_count
    /\ retry_count <= success_count

\* the only failure of the batch was a timeout whose retry succeeded: the
\* decrement has taken failed to zero
C18_Witness ==
    /\ pass = 2 /\ Len(timeout_jars) = 1
    /\ retry_count = 1 /\ failed_count = 0

\* C19: a call that returns with timeout set is handled as a timeout whatever
\* the thread wrote to success or error: in the first loop the item is
\* counted as failed and appended to the pending list, in the retry loop the
\* tally is left unchanged, and in neither is it counted as succeeded.
C19_TimeoutFirst ==
    [][(pc = "return" /\ calls[Cur].timeout /\ pc' # pc)
       => LET j == CurJar
          IN /\ log'[j] = Append(log[j], "timeout")
             /\ success_count' = success_count
             /\ retry_count' = retry_count
             /\ IF pass = 1
                THEN /\ failed_count' = failed_count + 1
                     /\ timeout_jars' = Append(timeout_jars, j)
                ELSE UNCHANGED tallyVars]_vars

\* the first item was counted as a timeout; the call of the second item is at
\* line 78 with timeout set and an error text already stored by the thread
C19_Witness ==
    /\ pc = "return" /\ pass = 1 /\ idx = 2
    /\ timeout_jars = <<jar_files[1]>> /\ failed_count = 1
    /\ calls[Cur].timeout /\ calls[Cur].error = "Exception in thread main"

\* C20: the thread and the child of a call that has returned change nothing
\* but that call's own result record: no other call's record, no counter, no
\* status line and not the orchestrator's position. So the record of the
\* call that is running holds only what its own child produced: success only
\* with its own exit status 0, an error only with its own child's failure or
\* kill, a handle only with its own child.
C20_AbandonedThreadIsolated ==
    /\ [](pc \in {"join", "alive", "process", "kill", "return"} =>
             LET c == calls[Cur]
             IN /\ c.success => c.proc = "exit0"
                /\ c.error # None => c.proc \in {"exit1", "killed"}
                /\ c.handle => c.proc # "none")
    /\ [][\A k \in Pending :
             calls'[k] # calls[k] =>
                 /\ \A other \in Keys \ {k} : calls'[other] = calls[other]
                 /\ UNCHANGED <<tallyVars, log, pc, pass, idx>>]_vars

\* the retry call of an item is at line 78 with a success, while the thread
\* of its first call, which timed out and was killed, has yet to write its
\* error
C20_Witness ==
    /\ pc = "return" /\ pass = 2
    /\ calls[Cur].success /\ ~calls[Cur].timeout
    /\ \E k \in Pending :
          /\ k # Cur /\ k[2] = CurJar
          /\ calls[k].thread = "communicate" /\ calls[k].proc = "killed"
====
